---------------------------- MODULE Spec2Model ----------------------------
(***************************************************************************)
(* The readmission-risk calculator (src/补充修改.py), a Streamlit script.    *)
(*                                                                         *)
(* One server process holds the resource cache of load_resources.  Every  *)
(* interaction of the operator (the first page load, a changed widget, a  *)
(* click on "Calculate Risk") runs the whole script from its first line   *)
(* to its last, to st.stop(), or to an exception that leaves it.  The     *)
(* model follows one session through such script runs, one action per     *)
(* section of the script.                                                  *)
(*                                                                         *)
(* Numbers are fixed point.  Measurements are held in tenths (0.5 mg/L is *)
(* 5).  A probability and a SHAP contribution are held in units of        *)
(* 1/ProbUnit, a percentage in units of 1/PctUnit percent.  With PctUnit  *)
(* = 50 the grid step is 0.02 %, no grid value lies halfway between two   *)
(* one-decimal numbers, and the script's float arithmetic (prob * 100,    *)
(* the comparisons with 30 and 70, the .1f format) gives on every grid    *)
(* value what the operators below compute.                                 *)
(***************************************************************************)
EXTENDS Integers, Sequences, FiniteSets, TLC

PctUnit == 50
ProbUnit == 100 * PctUnit

\* How many rotations of the NAME_MAPPING key order feature_names.pkl may hold.
NumOrders == 2
\* How many of the sidebar widgets (the first ones created) the operator changes.
NumVaried == 1
\* SpecInterp: at most this many weights of the scorer are not zero, and none
\* is larger than MaxWeight in absolute value.
MaxNonZero == 2
MaxWeight == 1

\* Python's None.
None == << >>
\* A name of the script that no assignment has bound yet (a number's place).
Unbound == -1
\* No exception.
NoException == ""

-----------------------------------------------------------------------------
(* Section 1 of the script: the display names.                             *)

NAME_MAPPING ==
    [ egfr                |-> "eGFR (mL/min/1.73m2)",
      E_over_e_prime      |-> "E/e' Ratio",
      d_dimer             |-> "D-Dimer (mg/L)",
      serum_creatinine    |-> "Serum Creatinine (umol/L)",
      nyha_class          |-> "NYHA Class",
      serum_uric_acid     |-> "Uric Acid (umol/L)",
      blood_urea_nitrogen |-> "BUN (mmol/L)",
      nt_probnp           |-> "NT-proBNP (pg/mL)",
      homocysteine        |-> "Homocysteine (umol/L)",
      hs_crp              |-> "hs-CRP (mg/L)" ]

\* The keys of NAME_MAPPING in the order the dict literal lists them.
MappingKeys ==
    << "egfr", "E_over_e_prime", "d_dimer", "serum_creatinine", "nyha_class",
       "serum_uric_acid", "blood_urea_nitrogen", "nt_probnp", "homocysteine",
       "hs_crp" >>

\* NAME_MAPPING.get(c, c)
DisplayName(c) == IF c \in DOMAIN NAME_MAPPING THEN NAME_MAPPING[c] ELSE c

-----------------------------------------------------------------------------
(* Section 3 of the script: the sidebar widgets, in tenths.                *)

\* The order in which the collector inserts the keys into input_dict.
InsertOrder ==
    << "egfr", "serum_creatinine", "blood_urea_nitrogen", "E_over_e_prime",
       "nt_probnp", "nyha_class", "d_dimer", "serum_uric_acid", "homocysteine",
       "hs_crp" >>

\* min_value, max_value and value of each number_input; the selectbox of
\* nyha_class offers 1..4 and starts at index 2.
WIDGETS ==
    [ egfr                |-> [min |-> 50,  max |-> 1500,   value |-> 300],
      serum_creatinine    |-> [min |-> 200, max |-> 10000,  value |-> 1500],
      blood_urea_nitrogen |-> [min |-> 10,  max |-> 500,    value |-> 100],
      E_over_e_prime      |-> [min |-> 10,  max |-> 500,    value |-> 150],
      nt_probnp           |-> [min |-> 100, max |-> 350000, value |-> 20000],
      nyha_class          |-> [min |-> 10,  max |-> 40,     value |-> 30],
      d_dimer             |-> [min |-> 0,   max |-> 200,    value |-> 5],
      serum_uric_acid     |-> [min |-> 500, max |-> 10000,  value |-> 4000],
      homocysteine        |-> [min |-> 10,  max |-> 1000,   value |-> 150],
      hs_crp              |-> [min |-> 0,   max |-> 2000,   value |-> 50] ]

Features == DOMAIN WIDGETS

Defaults == [f \in Features |-> WIDGETS[f].value]

\* The values of a widget the operator picks among: its two ends and its default.
Choices(f) == {WIDGETS[f].min, WIDGETS[f].value, WIDGETS[f].max}

VariedFeatures == {InsertOrder[i] : i \in 1..NumVaried}

-----------------------------------------------------------------------------
(* Sequences and tables.                                                    *)

Range(s) == {s[i] : i \in DOMAIN s}

IndexOf(s, x) == CHOOSE i \in DOMAIN s : s[i] = x

Rotate(s, k) == [i \in DOMAIN s |-> s[((i - 1 + k) % Len(s)) + 1]]

RECURSIVE SumSeq(_)
SumSeq(s) == IF s = << >> THEN 0 ELSE Head(s) + SumSeq(Tail(s))

Abs(x) == IF x < 0 THEN -x ELSE x

\* pd.DataFrame([d]) of an insertion-ordered dict d, a sequence of <<key, value>>:
\* one row, the columns in the dict's order.
DataFrame(d) ==
    [ columns |-> [i \in DOMAIN d |-> d[i][1]],
      rows    |-> << [i \in DOMAIN d |-> d[i][2]] >>,
      space   |-> "raw" ]

SelectInsertionOrder(df, names) == df

\* df[names]: the columns named, in the order of names.
Select(df, names) ==
    [ columns |-> names,
      rows    |-> [r \in DOMAIN df.rows |->
                     [i \in DOMAIN names |-> df.rows[r][IndexOf(df.columns, names[i])]]],
      space   |-> df.space ]


ColumnMeans(df) ==
    [i \in DOMAIN df.columns |->
        SumSeq([r \in DOMAIN df.rows |-> df.rows[r][i]]) \div Len(df.rows)]

Dot(a, b) == SumSeq([i \in DOMAIN a |-> a[i] * b[i]])

-----------------------------------------------------------------------------
(* The three artifacts.  The script takes them as they come out of         *)
(* joblib.load; what follows is the part of scikit-learn and shap that the *)
(* script reaches through them.                                             *)

Artifacts == {"final_model.pkl", "train_data_sample.pkl", "feature_names.pkl"}

\* The column orders feature_names.pkl may record.
FeatureOrders == {Rotate(MappingKeys, k) : k \in 0..(NumOrders - 1)} \cup {InsertOrder}

\* A second row of the training sample, by feature (the first is the defaults).
OtherPatient ==
    [ egfr |-> 500, serum_creatinine |-> 1100, blood_urea_nitrogen |-> 80,
      E_over_e_prime |-> 130, nt_probnp |-> 10000, nyha_class |-> 20,
      d_dimer |-> 3, serum_uric_acid |-> 3600, homocysteine |-> 130,
      hs_crp |-> 30 ]

\* train_data_sample.pkl: a table whose columns are in the training order.
Background(cols) ==
    [ columns |-> cols,
      rows    |-> << [i \in DOMAIN cols |-> Defaults[cols[i]]],
                     [i \in DOMAIN cols |-> OtherPatient[cols[i]]] >>,
      space   |-> "raw" ]

\* Weights of a linear scorer fitted on raw measurements, by feature.
RawWeight ==
    [ egfr |-> -3, serum_creatinine |-> 1, blood_urea_nitrogen |-> 2,
      E_over_e_prime |-> 4, nt_probnp |-> 0, nyha_class |-> 5, d_dimer |-> 6,
      serum_uric_acid |-> -1, homocysteine |-> 2, hs_crp |-> 1 ]

\* Weights of a linear scorer fitted on scaled measurements, by feature.
ScaledWeight ==
    [ egfr |-> -40, serum_creatinine |-> 25, blood_urea_nitrogen |-> 10,
      E_over_e_prime |-> 30, nt_probnp |-> 35, nyha_class |-> 20, d_dimer |-> 5,
      serum_uric_acid |-> -10, homocysteine |-> 15, hs_crp |-> 0 ]

ScalerScale ==
    [ egfr |-> 100, serum_creatinine |-> 500, blood_urea_nitrogen |-> 20,
      E_over_e_prime |-> 30, nt_probnp |-> 5000, nyha_class |-> 10, d_dimer |-> 2,
      serum_uric_acid |-> 800, homocysteine |-> 40, hs_crp |-> 25 ]

\* scaler.transform(X): (x - mean_) / scale_, in tenths of a standard deviation
transform(scaler, X) ==
    [ columns |-> X.columns,
      rows    |-> [r \in DOMAIN X.rows |->
                     [i \in DOMAIN X.columns |->
                        ((X.rows[r][i] - scaler.mean_[i]) * 10) \div scaler.scale_[i]]],
      space   |-> "scaled" ]

\* A fitted linear estimator: its coefficients lie in the order of the columns
\* it was fitted on; fold is 0 or 1 (the second fold's weights differ); its
\* score of the row ref is offset.
LinearModel(weight, cols, fold, offset, ref) ==
    [ kind       |-> "LogisticRegression",
      coef_      |-> [i \in DOMAIN cols |-> weight[cols[i]] + fold],
      intercept_ |-> offset - SumSeq([i \in DOMAIN cols |->
                                        (weight[cols[i]] + fold) * ref[i]]) ]

StandardScaler(cols) ==
    [ kind   |-> "StandardScaler",
      mean_  |-> ColumnMeans(Background(cols)),
      scale_ |-> [i \in DOMAIN cols |-> ScalerScale[cols[i]]] ]

Pipeline(steps) == [kind |-> "Pipeline", steps |-> steps]

CalibratedClassifierCV(first, second) ==
    [ kind |-> "CalibratedClassifierCV",
      calibrated_classifiers_ |-> << [estimator |-> first], [estimator |-> second] >> ]

Shapes == {"plain", "calibrated", "pipeline", "calibrated_pipeline",
           "auto_named_pipeline", "refitted"}

\* The default measurements as a row in the order cols, raw and scaled.
RawDefaults(cols) == [i \in DOMAIN cols |-> Defaults[cols[i]]]

ScaledDefaults(cols) ==
    transform(StandardScaler(cols),
              [columns |-> cols, rows |-> <<RawDefaults(cols)>>, space |-> "raw"]).rows[1]

RawScorer(a, cols, fold) == LinearModel(a.raw, cols, fold, a.offset, RawDefaults(cols))

ScaledScorer(a, cols, fold) ==
    LinearModel(ScaledWeight, cols, fold, a.offset, ScaledDefaults(cols))

ScalerThenClf(a, cols, fold) ==
    Pipeline(<< <<"scaler", StandardScaler(cols)>>,
                <<"clf", ScaledScorer(a, cols, fold)>> >>)

\* The column order final_model.pkl was fitted on: that of feature_names.pkl,
\* but for a "refitted" model (fitted again on a table in another order).
FittedOn(a) == IF a.shape = "refitted" THEN Rotate(a.names, 1) ELSE a.names

\* final_model.pkl, for the artifact set a = [shape, names, raw, offset]: the
\* shape of the object, the column order recorded beside it, the weights of a
\* raw-space scorer and the score at the default measurements.
\* "auto_named_pipeline" is a pipeline whose steps carry the names
\* make_pipeline gives them.
Classifier(a) ==
    LET cols == FittedOn(a) IN
    [feature_names_in_ |-> cols] @@
    CASE a.shape \in {"plain", "refitted"} -> RawScorer(a, cols, 0)
      [] a.shape = "calibrated" ->
            CalibratedClassifierCV(RawScorer(a, cols, 0), RawScorer(a, cols, 1))
      [] a.shape = "pipeline" -> ScalerThenClf(a, cols, 0)
      [] a.shape = "calibrated_pipeline" ->
            CalibratedClassifierCV(ScalerThenClf(a, cols, 0), ScalerThenClf(a, cols, 1))
      [] a.shape = "auto_named_pipeline" ->
            Pipeline(<< <<"standardscaler", StandardScaler(cols)>>,
                        <<"logisticregression", ScaledScorer(a, cols, 0)>> >>)

\* hasattr(o, a)
hasattr(o, a) ==
    \/ a \in DOMAIN o
    \/ a = "named_steps" /\ "steps" \in DOMAIN o

StepNames(p) == {p.steps[i][1] : i \in DOMAIN p.steps}

\* p.named_steps[name], for a name among StepNames(p)
named_steps(p, name) == p.steps[CHOOSE i \in DOMAIN p.steps : p.steps[i][1] = name][2]

Clip(z) == IF z < 0 THEN 0 ELSE IF z > ProbUnit THEN ProbUnit ELSE z

\* The link of a linear score to a probability (monotone, onto [0, 1]).
Link(z) == Clip((ProbUnit \div 2) + z)

\* The positive-class probability an object gives the first row of X.
RECURSIVE Proba(_, _)
Proba(o, X) ==
    CASE o.kind = "LogisticRegression" -> Link(o.intercept_ + Dot(o.coef_, X.rows[1]))
      [] o.kind = "Pipeline" ->
            Proba(o.steps[Len(o.steps)][2], transform(o.steps[1][2], X))
      [] o.kind = "CalibratedClassifierCV" ->
            SumSeq([k \in DOMAIN o.calibrated_classifiers_ |->
                      Proba(o.calibrated_classifiers_[k].estimator, X)])
              \div Len(o.calibrated_classifiers_)

\* model.predict_proba(X)[:, 1][0]: scikit-learn refuses a table whose column
\* names are not, in order, those the model was fitted on.
predict_proba(m, X) ==
    IF X.columns # m.feature_names_in_
    THEN [raised |-> TRUE, value |-> Unbound]
    ELSE [raised |-> FALSE, value |-> Proba(m, X)]

\* shap.LinearExplainer(clf, data, feature_perturbation="interventional")
LinearExplainer(clf, data) ==
    [ coef   |-> clf.coef_,
      mean   |-> ColumnMeans(data),
      expected_value |-> clf.intercept_ + Dot(clf.coef_, ColumnMeans(data)),
      space  |-> data.space ]

\* explainer(X): per row and column, coef * (x - mean of the background)
Explain(explainer, X) ==
    [ values      |-> [r \in DOMAIN X.rows |->
                         [i \in DOMAIN X.columns |->
                            explainer.coef[i] * (X.rows[r][i] - explainer.mean[i])]],
      base_values |-> explainer.expected_value,
      background  |-> explainer.space,
      query       |-> X.space,
      feature_names |-> X.columns ]

-----------------------------------------------------------------------------
(* Section 4 of the script: the pure parts of the button's handler.        *)

\* prob * 100
Times100(p) == (p * 100) \div (ProbUnit \div PctUnit)

RoundTenthsDown(v) == (v * 10) \div PctUnit

\* The one-decimal number nearest to a value v >= 0 given in units of
\* 1/PctUnit, in tenths; a value exactly halfway goes to the even neighbour.
RoundTenths(v) ==
    LET q == (v * 10) \div PctUnit
        r == (v * 10) % PctUnit
    IN  IF 2 * r < PctUnit THEN q
        ELSE IF 2 * r > PctUnit THEN q + 1
        ELSE IF q % 2 = 0 THEN q ELSE q + 1

\* f"{v:.1f}"
Fmt1(v) == ToString(RoundTenths(v) \div 10) \o "." \o ToString(RoundTenths(v) % 10)

TierInclusive(risk_percentage) ==
    IF risk_percentage <= 30 * PctUnit
    THEN [color |-> "#28a745", level |-> "Low Risk"]
    ELSE IF risk_percentage <= 70 * PctUnit
    THEN [color |-> "#ffc107", level |-> "Intermediate Risk"]
    ELSE [color |-> "#dc3545", level |-> "High Risk"]

\* The "Dynamic Color Logic".
Tier(risk_percentage) ==
    IF risk_percentage < 30 * PctUnit
    THEN [color |-> "#28a745", level |-> "Low Risk"]
    ELSE IF risk_percentage < 70 * PctUnit
    THEN [color |-> "#ffc107", level |-> "Intermediate Risk"]
    ELSE [color |-> "#dc3545", level |-> "High Risk"]

\* The probability card: border and text colour, the h1 and the h3.
Card(p) ==
    LET risk_percentage == Times100(p)
    IN  [ color      |-> Tier(risk_percentage).color,
          percentage |-> Fmt1(risk_percentage) \o "%",
          level      |-> Tier(risk_percentage).level ]

\* estimator after the calibration wrapper is taken off
Unwrap(m) ==
    IF hasattr(m, "calibrated_classifiers_")
    THEN m.calibrated_classifiers_[1].estimator
    ELSE m

\* X_bg_scaled and X_input_scaled
ScaledBackground(scaler, bg) == transform(scaler, bg)

ScaledInputForgotten(scaler, df) == df

ScaledInput(scaler, df) == transform(scaler, df)

CachedAfterSHAPInPlace(c, r) ==
    IF r.raised = NoException /\ r.background.space = "scaled"
    THEN [c EXCEPT !.value[2] = r.background]
    ELSE c

\* The cache entry after the SHAP block has run with outcome r:
\* scaler.transform gives a new table, and nothing assigns into the model,
\* the sample or the list.
CachedAfterSHAP(c, r) == c

\* The "SHAP Calculation Logic": what raised, or the explainer's estimator,
\* reference and query and the explanation of the row.
SHAP(m, bg, df) ==
    LET estimator == Unwrap(m) IN
    IF hasattr(estimator, "named_steps")
    THEN IF ~({"scaler", "clf"} \subseteq StepNames(estimator))
         THEN [raised |-> "KeyError"]
         ELSE LET scaler == named_steps(estimator, "scaler")
                  clf == named_steps(estimator, "clf")
                  X_bg_scaled == ScaledBackground(scaler, bg)
                  X_input_scaled == ScaledInput(scaler, df)
              IN  [ raised      |-> NoException,
                    estimator   |-> clf,
                    background  |-> X_bg_scaled,
                    query       |-> X_input_scaled,
                    shap_values |-> Explain(LinearExplainer(clf, X_bg_scaled),
                                            X_input_scaled) ]
    ELSE [ raised      |-> NoException,
           estimator   |-> estimator,
           background  |-> bg,
           query       |-> df,
           shap_values |-> Explain(LinearExplainer(estimator, bg), df) ]

\* shap_values.feature_names = [NAME_MAPPING.get(c, c) for c in model_features]
Relabel(sv, names) ==
    [sv EXCEPT !.feature_names = [i \in DOMAIN names |-> DisplayName(names[i])]]

ArgMaxSigned(v) ==
    CHOOSE i \in DOMAIN v :
        /\ \A j \in DOMAIN v : v[j] <= v[i]
        /\ \A j \in 1..(i - 1) : v[j] < v[i]

\* np.argmax(np.abs(v)): the first index of the largest absolute value
ArgMaxAbs(v) ==
    CHOOSE i \in DOMAIN v :
        /\ \A j \in DOMAIN v : Abs(v[j]) <= Abs(v[i])
        /\ \A j \in 1..(i - 1) : Abs(v[j]) < Abs(v[i])

\* The interpretation: the three bold parts of the st.info sentence.
Interpret(sv) ==
    LET top_feature_idx == ArgMaxAbs(sv.values[1])
        contribution == sv.values[1][top_feature_idx]
    IN  [ top_feature_name |-> sv.feature_names[top_feature_idx],
          direction        |-> IF contribution > 0 THEN "increased" ELSE "decreased",
          amount           |-> Fmt1(Times100(Abs(contribution))) \o "%" ]

ERR_FILES == "Error: Model files not found."
ERR_PREDICTION == "Model prediction failed. Please check input data."
PROMPT == "Please enter clinical parameters in the sidebar and click 'Calculate Risk'."
WATERFALL == "waterfall"

-----------------------------------------------------------------------------
(* The state.                                                               *)

VARIABLES
    disk,           \* the artifact files now in the working directory
    art,            \* what the artifact files hold
    cache,          \* st.cache_resource's entry for load_resources
    reads,          \* how often the body of load_resources has run
    seenAtLoad,     \* the files that were there when it first ran
    pc,             \* where the script run is; "idle" between runs
    button,         \* st.button's value in this run
    widgets,        \* the sidebar widgets' values (session state)
    model, X_train_bg, model_features,
    input_dict, input_df, prob, card, explained, shap_values, sentence,
    screen,         \* the messages and the chart this run has put on the page
    uncaught,       \* the exception that left the script, if one did
    trace,          \* the sections this run has gone through
    prev            \* the evaluation before: its widget values and its outputs

process == <<disk, art, cache, reads, seenAtLoad>>
run == <<model, X_train_bg, model_features, input_dict, input_df, prob, card,
         explained, shap_values, sentence, screen, uncaught, trace>>
vars == <<process, pc, button, widgets, run, prev>>

Outputs ==
    [ prob |-> prob, card |-> card, shap_values |-> shap_values,
      sentence |-> sentence, screen |-> screen, uncaught |-> uncaught ]

\* A script run starts with no name bound and an empty page.
Fresh ==
    /\ model' = None /\ X_train_bg' = None /\ model_features' = None
    /\ input_dict' = << >> /\ input_df' = None /\ prob' = Unbound
    /\ card' = None /\ explained' = None /\ shap_values' = None
    /\ sentence' = None /\ screen' = {} /\ uncaught' = NoException /\ trace' = << >>

ArtifactSets ==
    [shape : Shapes, names : FeatureOrders, raw : {RawWeight}, offset : {0}]

\* The process has started and the page is opened for the first time.
Init ==
    /\ disk \in SUBSET Artifacts
    /\ art \in ArtifactSets
    /\ cache = [filled |-> FALSE, value |-> <<None, None, None>>, messages |-> {}]
    /\ reads = 0
    /\ seenAtLoad = {}
    /\ pc = "load_resources"
    /\ button = FALSE
    /\ widgets = Defaults
    /\ model = None /\ X_train_bg = None /\ model_features = None
    /\ input_dict = << >> /\ input_df = None /\ prob = Unbound
    /\ card = None /\ explained = None /\ shap_values = None
    /\ sentence = None /\ screen = {} /\ uncaught = NoException /\ trace = << >>
    /\ prev = None

-----------------------------------------------------------------------------
(* Section 2 of the script: load_resources under st.cache_resource.        *)

load_resources_silent(files, a) ==
    IF Artifacts \subseteq files
    THEN [ value    |-> <<Classifier(a), Background(FittedOn(a)), a.names>>,
           messages |-> {} ]
    ELSE [ value    |-> <<None, None, None>>,
           messages |-> {} ]

\* The body of load_resources: joblib.load of the three files, or the error
\* message and three None when one of them is not found.
load_resources(files, a) ==
    IF Artifacts \subseteq files
    THEN [ value    |-> <<Classifier(a), Background(FittedOn(a)), a.names>>,
           messages |-> {} ]
    ELSE [ value    |-> <<None, None, None>>,
           messages |-> {ERR_FILES} ]

CacheNeverHit(c) == FALSE

\* st.cache_resource: the entry, once there, answers every call ...
CacheHit(c) == c.filled

\* ... and the st.error the body made is shown again with it.
Replayed(c) == c.messages

\* model, X_train_bg, model_features = load_resources()
LoadResources ==
    /\ pc = "load_resources"
    /\ LET hit == CacheHit(cache)
           r == IF hit THEN [value |-> cache.value, messages |-> Replayed(cache)]
                       ELSE load_resources(disk, art)
       IN  /\ cache' = IF hit THEN cache
                       ELSE [filled |-> TRUE, value |-> r.value, messages |-> r.messages]
           /\ reads' = IF hit THEN reads ELSE reads + 1
           /\ seenAtLoad' = IF hit \/ reads > 0 THEN seenAtLoad ELSE disk
           /\ model' = r.value[1]
           /\ X_train_bg' = r.value[2]
           /\ model_features' = r.value[3]
           /\ screen' = screen \cup r.messages
    /\ trace' = Append(trace, "load_resources")
    /\ pc' = "collector"
    /\ UNCHANGED <<disk, art, button, widgets, input_dict, input_df, prob, card,
                   explained, shap_values, sentence, uncaught, prev>>

-----------------------------------------------------------------------------
(* Section 3 of the script: the collector.                                  *)

\* if model_features:
Truthy(x) == x # None /\ x # << >>

\* input_dict: the ten keys in the order their widgets are made.
Collect(w) == [i \in DOMAIN InsertOrder |-> <<InsertOrder[i], w[InsertOrder[i]]>>]

Collector ==
    /\ pc = "collector"
    /\ input_dict' = IF Truthy(model_features) THEN Collect(widgets) ELSE << >>
    /\ trace' = Append(trace, "collector")
    /\ pc' = "button"
    /\ UNCHANGED <<process, button, widgets, model, X_train_bg, model_features,
                   input_df, prob, card, explained, shap_values, sentence, screen,
                   uncaught, prev>>

-----------------------------------------------------------------------------
(* Section 4 of the script: the button and its handler.                    *)

\* The else branch of the button: the run ends with the prompt.
Prompt ==
    /\ pc = "button"
    /\ ~button
    /\ screen' = screen \cup {PROMPT}
    /\ trace' = Append(trace, "prompt")
    /\ pc' = "idle"
    /\ UNCHANGED <<process, button, widgets, model, X_train_bg, model_features,
                   input_dict, input_df, prob, card, explained, shap_values,
                   sentence, uncaught, prev>>

\* if model is None: st.stop()
Blocked(m) == m = None

StopUnavailable ==
    /\ pc = "button"
    /\ button
    /\ Blocked(model)
    /\ trace' = Append(trace, "stop")
    /\ pc' = "idle"
    /\ UNCHANGED <<process, button, widgets, model, X_train_bg, model_features,
                   input_dict, input_df, prob, card, explained, shap_values,
                   sentence, screen, uncaught, prev>>

\* 1. Prepare Input Data
PrepareInput ==
    /\ pc = "button"
    /\ button
    /\ ~Blocked(model)
    /\ input_df' = Select(DataFrame(input_dict), model_features)
    /\ trace' = Append(trace, "prepare")
    /\ pc' = "prediction"
    /\ UNCHANGED <<process, button, widgets, model, X_train_bg, model_features,
                   input_dict, prob, card, explained, shap_values, sentence, screen,
                   uncaught, prev>>

AfterPredictionFailedGoOn == "display"

\* Where the run goes when predict_proba has raised: st.error, then st.stop().
AfterPredictionFailed == "idle"

\* 2. Prediction
Prediction ==
    /\ pc = "prediction"
    /\ LET r == predict_proba(model, input_df) IN
       IF r.raised
       THEN /\ screen' = screen \cup {ERR_PREDICTION}
            /\ trace' = Append(trace, "prediction_failed")
            /\ pc' = AfterPredictionFailed
            /\ prob' = prob
       ELSE /\ prob' = r.value
            /\ trace' = Append(trace, "predict_proba")
            /\ pc' = "display"
            /\ screen' = screen
    /\ UNCHANGED <<process, button, widgets, model, X_train_bg, model_features,
                   input_dict, input_df, card, explained, shap_values, sentence,
                   uncaught, prev>>

\* 3. Display Results, the left column
DisplayResults ==
    /\ pc = "display"
    /\ card' = Card(prob)
    /\ trace' = Append(trace, "card")
    /\ pc' = "attribution"
    /\ UNCHANGED <<process, button, widgets, model, X_train_bg, model_features,
                   input_dict, input_df, prob, explained, shap_values, sentence,
                   screen, uncaught, prev>>

\* The right column: the SHAP block, the relabelling and the waterfall.  No
\* try encloses it: what it raises leaves the script run.
Attribution ==
    /\ pc = "attribution"
    /\ LET r == SHAP(model, X_train_bg, input_df) IN
       /\ cache' = CachedAfterSHAP(cache, r)
       /\ IF r.raised # NoException
          THEN /\ uncaught' = r.raised
               /\ trace' = Append(trace, "attribution_raised")
               /\ pc' = "idle"
               /\ UNCHANGED <<explained, shap_values, screen>>
          ELSE /\ explained' = [ estimator  |-> r.estimator,
                                 background |-> r.background,
                                 query      |-> r.query ]
               /\ shap_values' = Relabel(r.shap_values, model_features)
               /\ screen' = screen \cup {WATERFALL}
               /\ trace' = Append(trace, "attribution")
               /\ pc' = "interpretation"
               /\ uncaught' = uncaught
    /\ UNCHANGED <<disk, art, reads, seenAtLoad, button, widgets, model, X_train_bg,
                   model_features, input_dict, input_df, prob, card, sentence, prev>>

\* AI Interpretation Text
Interpretation ==
    /\ pc = "interpretation"
    /\ sentence' = Interpret(shap_values)
    /\ trace' = Append(trace, "interpretation")
    /\ pc' = "idle"
    /\ UNCHANGED <<process, button, widgets, model, X_train_bg, model_features,
                   input_dict, input_df, prob, card, explained, shap_values, screen,
                   uncaught, prev>>

-----------------------------------------------------------------------------
(* The operator and the working directory, between two script runs.        *)

\* Streamlit runs the script again: b is the button's value in the new run, w
\* the widgets' values.  The run before, if it was an evaluation, is kept in
\* prev for comparison.
Rerun(b, w) ==
    /\ pc = "idle"
    /\ button' = b
    /\ widgets' = w
    /\ prev' = IF button THEN [widgets |-> widgets, out |-> Outputs] ELSE prev
    /\ pc' = "load_resources"
    /\ Fresh
    /\ UNCHANGED process

\* The operator sets one of the widgets the last run has drawn.
ChangeWidget ==
    \E f \in VariedFeatures : \E v \in Choices(f) :
        /\ Truthy(model_features)
        /\ v # widgets[f]
        /\ Rerun(FALSE, [widgets EXCEPT ![f] = v])

\* The operator clicks "Calculate Risk".
ClickCalculate == Rerun(TRUE, widgets)

RemoveArtifact ==
    \E f \in disk :
        /\ pc = "idle"
        /\ disk' = disk \ {f}
        /\ UNCHANGED <<art, cache, reads, seenAtLoad, pc, button, widgets, run, prev>>

RestoreArtifact ==
    \E f \in Artifacts \ disk :
        /\ pc = "idle"
        /\ disk' = disk \cup {f}
        /\ UNCHANGED <<art, cache, reads, seenAtLoad, pc, button, widgets, run, prev>>

Next ==
    \/ LoadResources
    \/ Collector
    \/ Prompt
    \/ StopUnavailable
    \/ PrepareInput
    \/ Prediction
    \/ DisplayResults
    \/ Attribution
    \/ Interpretation
    \/ ChangeWidget
    \/ ClickCalculate
    \/ RemoveArtifact
    \/ RestoreArtifact

Spec == Init /\ [][Next]_vars

-----------------------------------------------------------------------------
(* The handler alone, over wider families of artifacts than Spec's.        *)

\* The first evaluation of a process that found the artifact set a, with the
\* default measurements, where predict_proba is about to be called.
Prepared(a) ==
    LET r == load_resources(Artifacts, a) IN
    /\ disk = Artifacts
    /\ art = a
    /\ cache = [filled |-> TRUE, value |-> r.value, messages |-> {}]
    /\ reads = 1
    /\ seenAtLoad = Artifacts
    /\ pc = "prediction"
    /\ button = TRUE
    /\ widgets = Defaults
    /\ model = r.value[1] /\ X_train_bg = r.value[2] /\ model_features = r.value[3]
    /\ input_dict = Collect(Defaults)
    /\ input_df = Select(DataFrame(Collect(Defaults)), r.value[3])
    /\ prob = Unbound
    /\ card = None /\ explained = None /\ shap_values = None
    /\ sentence = None /\ screen = {} /\ uncaught = NoException
    /\ trace = <<"load_resources", "collector", "prepare">>
    /\ prev = None

NextEval ==
    \/ Prediction
    \/ DisplayResults
    \/ Attribution
    \/ Interpretation

\* Scorers that give the default measurements every probability of the grid.
InitCard ==
    \E o \in (0 - (ProbUnit \div 2))..(ProbUnit - (ProbUnit \div 2)) :
        Prepared([shape |-> "plain", names |-> InsertOrder, raw |-> RawWeight,
                  offset |-> o])

SpecCard == InitCard /\ [][NextEval]_vars

\* Weight vectors with at most MaxNonZero weights that are not zero.
WeightVectors ==
    LET supports == {S \in SUBSET Features : Cardinality(S) <= MaxNonZero}
        nonzero == ((0 - MaxWeight)..MaxWeight) \ {0}
    IN  UNION { { [f \in Features |-> IF f \in S THEN g[f] ELSE 0] :
                    g \in [S -> nonzero] } : S \in supports }

\* Scorers of every such weight vector, in every column order.
InitInterp ==
    \E names \in FeatureOrders : \E w \in WeightVectors :
        Prepared([shape |-> "plain", names |-> names, raw |-> w, offset |-> 0])

SpecInterp == InitInterp /\ [][NextEval]_vars

-----------------------------------------------------------------------------
(* The claims.                                                              *)

Done(event) == event \in Range(trace)

\* This run has got its triple from load_resources.
Loaded == Done("load_resources")

\* Nothing of an evaluation has been produced in this run.
NothingComputed ==
    /\ input_df = None
    /\ prob = Unbound
    /\ card = None
    /\ explained = None
    /\ shap_values = None
    /\ sentence = None
    /\ WATERFALL \notin screen

\* C1: when one of the three files was missing at the first run of
\* load_resources, every script run after that shows the "files not found"
\* message from its load on, and a run started by the button computes no
\* probability and no attribution, assembles no input table, and ends at
\* st.stop().
C1_MissingArtifactBlocks ==
    (reads >= 1 /\ seenAtLoad # Artifacts /\ Loaded) =>
        /\ ERR_FILES \in screen
        /\ model = None
        /\ NothingComputed
        /\ pc \in {"collector", "button", "idle"}
        /\ \A i \in DOMAIN trace :
              trace[i] \in {"load_resources", "collector", "stop", "prompt"}
        /\ (button /\ pc = "idle") => trace[Len(trace)] = "stop"

\* C1's case: only feature_names.pkl was missing at the load, and a second
\* click on the button has been blocked with the message on the page.
C1_Witness ==
    /\ seenAtLoad = Artifacts \ {"feature_names.pkl"}
    /\ reads = 1
    /\ pc = "idle" /\ button /\ prev # None
    /\ Done("stop")
    /\ ERR_FILES \in screen

\* Some message on the page other than those the script has for missing
\* files, a failed prediction and the prompt.
AttributionErrorShown ==
    \E m \in screen : m \notin {ERR_FILES, ERR_PREDICTION, PROMPT, WATERFALL}

\* C2: when the attribution sequence raises after inference succeeded, the
\* handler catches it and shows an attribution error: no exception leaves
\* the script run, the message is on the page, and the card stays.
C2_AttributionFailureCaught ==
    Done("attribution_raised") =>
        /\ uncaught = NoException
        /\ AttributionErrorShown
        /\ card # None

\* C3: when predict_proba raises, the run shows the "prediction failed"
\* message and stops there: no card, no attribution, no sentence; and in
\* every run the attribution starts only after predict_proba has returned a
\* probability.
C3_PredictionFailureAborts ==
    /\ Done("prediction_failed") =>
          /\ ERR_PREDICTION \in screen
          /\ pc = "idle"
          /\ trace[Len(trace)] = "prediction_failed"
          /\ prob = Unbound
          /\ card = None
          /\ explained = None /\ shap_values = None /\ WATERFALL \notin screen
          /\ sentence = None
          /\ uncaught = NoException
    /\ \A i \in DOMAIN trace :
          trace[i] \in {"attribution", "attribution_raised"} =>
              \E j \in 1..(i - 1) : trace[j] = "predict_proba"
    /\ pc \in {"attribution", "interpretation"} =>
          (Done("predict_proba") /\ prob \in 0..ProbUnit)

\* C3's case: predict_proba has raised in an evaluation and the run is over.
C3_Witness ==
    /\ Done("prediction_failed")
    /\ pc = "idle" /\ button
    /\ ERR_PREDICTION \in screen

\* The percentage of the card, ten times, so that 29.9 % is 299 * PctUnit.
TenTimesPercentage == 10 * Times100(prob)

Rank(level) ==
    CASE level = "Low Risk" -> 1
      [] level = "Intermediate Risk" -> 2
      [] level = "High Risk" -> 3

\* C4: the tier of the card is the step function of the percentage 100 * p:
\* low and green below 30, intermediate and yellow from 30 to below 70, high
\* and red from 70 on; so at 29.9, 30.0, 69.9 and 70.0; and it never falls
\* when the percentage rises by one grid step.
C4_TierIsStepFunction ==
    card # None =>
        /\ (Times100(prob) < 30 * PctUnit) =>
              (card.level = "Low Risk" /\ card.color = "#28a745")
        /\ (Times100(prob) >= 30 * PctUnit /\ Times100(prob) < 70 * PctUnit) =>
              (card.level = "Intermediate Risk" /\ card.color = "#ffc107")
        /\ (Times100(prob) >= 70 * PctUnit) =>
              (card.level = "High Risk" /\ card.color = "#dc3545")
        /\ (TenTimesPercentage = 299 * PctUnit) => card.level = "Low Risk"
        /\ (TenTimesPercentage = 300 * PctUnit) => card.level = "Intermediate Risk"
        /\ (TenTimesPercentage = 699 * PctUnit) => card.level = "Intermediate Risk"
        /\ (TenTimesPercentage = 700 * PctUnit) => card.level = "High Risk"
        /\ (prob > 0) => Rank(Card(prob - 1).level) <= Rank(card.level)

\* C4's case: the card of a probability of exactly 30.0 %.
C4_Witness ==
    /\ card # None
    /\ TenTimesPercentage = 300 * PctUnit
    /\ card.level = "Intermediate Risk"

\* C5: the body of load_resources runs at most once in the process; what it
\* returned then, the artifacts or the three None, is the cache entry ever
\* after, whatever happens to the files, and is what every script run gets.
C5_LoadedOnce ==
    /\ reads <= 1
    /\ cache.filled <=> (reads = 1)
    /\ cache.filled => (cache.value = load_resources(seenAtLoad, art).value)
    /\ Loaded => (cache.filled /\ <<model, X_train_bg, model_features>> = cache.value)

\* C5's case: the three None are cached, the files are all back, and a later
\* evaluation has still got the three None.
C5_Witness ==
    /\ reads = 1
    /\ cache.filled /\ cache.value = <<None, None, None>>
    /\ disk = Artifacts
    /\ button /\ Loaded /\ prev # None
    /\ model = None

\* The probability the same measurements get when feature_names.pkl, and the
\* model's columns with it, are in the order `order`.
ProbabilityInOrder(order) ==
    predict_proba(Classifier([art EXCEPT !.names = order]),
                  [ columns |-> order,
                    rows    |-> << [i \in DOMAIN order |-> widgets[order[i]]] >>,
                    space   |-> "raw" ]).value

\* C6: the table given to predict_proba and to the attribution has one row
\* and exactly the columns of the loaded feature list, in its order, each
\* holding the value of the widget of that name; and the probability is the
\* one the model gets in any other order of the list.
C6_ColumnsFollowFeatureList ==
    /\ input_df # None =>
          /\ input_df.columns = cache.value[3]
          /\ Len(input_df.rows) = 1
          /\ \A i \in DOMAIN input_df.columns :
                input_df.rows[1][i] = widgets[input_df.columns[i]]
    /\ explained # None =>
          /\ explained.query.columns = cache.value[3]
          /\ Len(explained.query.rows) = 1
    /\ Done("predict_proba") =>
          \A order \in FeatureOrders : prob = ProbabilityInOrder(order)

\* C6's case: an evaluation has reached the classifier with a feature list
\* that is not in the collector's order and a widget off its default.
C6_Witness ==
    /\ Done("predict_proba")
    /\ model_features # InsertOrder
    /\ widgets # Defaults

\* The text of a one-decimal number of t tenths, with the percent sign.
PercentText(t) == ToString(t \div 10) \o "." \o ToString(t % 10) \o "%"

\* t tenths is a one-decimal number nearest to v (in units of 1/PctUnit).
NearestTenth(t, v) == 2 * Abs(10 * v - t * PctUnit) <= PctUnit

\* The text is v to one decimal.
ToOneDecimal(text, v) ==
    \E t \in ((10 * v) \div PctUnit)..(((10 * v) \div PctUnit) + 1) :
        NearestTenth(t, v) /\ text = PercentText(t)

\* C7: the sentence names the display name of a feature whose contribution
\* is largest in absolute value, the name at that feature's index in the
\* feature list; it gives that absolute contribution times 100 to one
\* decimal, and says "increased" when that contribution is positive and
\* "decreased" when it is negative or zero.
C7_SentenceNamesTopFeature ==
    sentence # None =>
        /\ Len(shap_values.values[1]) = Len(MappingKeys)
        /\ \E i \in DOMAIN model_features :
              LET v == shap_values.values[1] IN
              /\ sentence.top_feature_name = NAME_MAPPING[model_features[i]]
              /\ \A j \in DOMAIN v : Abs(v[j]) <= Abs(v[i])
              /\ sentence.direction = (IF v[i] > 0 THEN "increased" ELSE "decreased")
              /\ ToOneDecimal(sentence.amount, Times100(Abs(v[i])))

\* C7's case: every contribution is exactly zero, and the sentence says
\* "decreased" by 0.0 %.
C7_Witness ==
    /\ sentence # None
    /\ \A j \in DOMAIN shap_values.values[1] : shap_values.values[1][j] = 0
    /\ sentence.direction = "decreased"
    /\ sentence.amount = "0.0%"

FirstBase == model.calibrated_classifiers_[1].estimator

ExpectedExplained ==
    CASE art.shape = "plain" ->
            [estimator |-> model, background |-> X_train_bg, query |-> input_df]
      [] art.shape = "calibrated" ->
            [estimator |-> FirstBase, background |-> X_train_bg, query |-> input_df]
      [] art.shape = "pipeline" ->
            [ estimator  |-> model.steps[2][2],
              background |-> transform(model.steps[1][2], X_train_bg),
              query      |-> transform(model.steps[1][2], input_df) ]
      [] art.shape = "calibrated_pipeline" ->
            [ estimator  |-> FirstBase.steps[2][2],
              background |-> transform(FirstBase.steps[1][2], X_train_bg),
              query      |-> transform(FirstBase.steps[1][2], input_df) ]

DisplayedTenths == CHOOSE t \in 0..1000 : card.percentage = PercentText(t)

LevelOf(tenths) ==
    IF tenths < 300 THEN "Low Risk"
    ELSE IF tenths < 700 THEN "Intermediate Risk"
    ELSE "High Risk"

\* C10 as claimed: the tier on the card is the tier of the percentage as the
\* card displays it, rounded to one decimal.
C10_TierOfDisplayedPercentage ==
    card # None => card.level = LevelOf(DisplayedTenths)

\* C10 as amended: the tier on the card is the tier of the unrounded
\* percentage, and the text is that percentage to one decimal; so a card
\* with "Low Risk" shows at most "30.0%" and one with "Intermediate Risk" at
\* most "70.0%", and a card showing less than "30.0%" (less than "70.0%") is
\* never above "Low Risk" ("Intermediate Risk").
C10_TierOfUnroundedPercentage ==
    card # None =>
        /\ card.level = (IF Times100(prob) < 30 * PctUnit THEN "Low Risk"
                         ELSE IF Times100(prob) < 70 * PctUnit THEN "Intermediate Risk"
                         ELSE "High Risk")
        /\ ToOneDecimal(card.percentage, Times100(prob))
        /\ \E t \in 0..1000 :
              /\ card.percentage = PercentText(t)
              /\ NearestTenth(t, Times100(prob))
              /\ card.level = "Low Risk" => t <= 300
              /\ card.level = "Intermediate Risk" => t <= 700
              /\ t < 300 => card.level = "Low Risk"
              /\ t < 700 => card.level # "High Risk"

\* C10's case: a card that shows "30.0%" with "Low Risk".
C10_Witness ==
    /\ card # None
    /\ card.percentage = "30.0%"
    /\ card.level = "Low Risk"
    /\ Times100(prob) < 30 * PctUnit

=============================================================================
